---------------------------- MODULE Spec2Model ----------------------------
(***************************************************************************)
(* Model of the backtesting engine of the A2E trading system               *)
(* (src/engine.py): BacktestEngine with its order queue, position ledger,  *)
(* trade log and equity curve.                                             *)
(*                                                                         *)
(* Numbers.  The engine computes in floating point.  A float is modelled   *)
(* as an extended rational <<n, d>>: d > 0 is the finite value n/d in      *)
(* lowest terms, <<1, 0>> is +inf, <<-1, 0>> is -inf and <<0, 0>> is NaN.   *)
(* Rounding is not modelled: finite results are exact.  Quantities are     *)
(* integers.  Values read from a DataFrame row are numpy.float64 scalars,  *)
(* values supplied by the caller (Order.price) are Python floats; the two  *)
(* differ in what a division by zero does (inf/NaN with a warning versus   *)
(* ZeroDivisionError), so the model tracks which kind an average price is. *)
(***************************************************************************)
EXTENDS Integers, Sequences, FiniteSets, TLC

\* ------------------------------------------------------------------ bounds
\* Total number of calls in a run: place_order calls plus DataFrame rows
\* handed to process_market_data.
MaxSteps == 4

\* Number of equity samples of a curve handed to get_performance_metrics.
MaxSamples == 3

\* ------------------------------------------------------- float arithmetic
Abs(n) == IF n < 0 THEN -n ELSE n

Sgn(n) == IF n < 0 THEN -1 ELSE IF n > 0 THEN 1 ELSE 0

RECURSIVE GCD(_, _)
GCD(a, b) == IF b = 0 THEN a ELSE GCD(b, a % b)

\* The float with numerator n and denominator d >= 0, in canonical form.
Norm(n, d) ==
    IF d = 0 THEN <<Sgn(n), 0>>
    ELSE LET g == GCD(Abs(n), d) IN <<n \div g, d \div g>>

F(n) == <<n, 1>>
Zero == <<0, 1>>
One == <<1, 1>>
NaN == <<0, 0>>

IsFinite(x) == x[2] # 0
IsNaN(x) == x = NaN

FNeg(x) == <<-x[1], x[2]>>

FAdd(x, y) ==
    IF IsFinite(x) /\ IsFinite(y)
    THEN LET g == GCD(x[2], y[2])
         IN  Norm(x[1] * (y[2] \div g) + y[1] * (x[2] \div g), (x[2] \div g) * y[2])
    ELSE IF IsNaN(x) \/ IsNaN(y) THEN NaN
    ELSE IF IsFinite(y) THEN x
    ELSE IF IsFinite(x) THEN y
    ELSE IF x = y THEN x ELSE NaN

FSub(x, y) == FAdd(x, FNeg(y))

FMul(x, y) ==
    IF IsNaN(x) \/ IsNaN(y) THEN NaN
    ELSE LET g1 == IF IsFinite(y) THEN GCD(Abs(x[1]), y[2]) ELSE 1
             g2 == IF IsFinite(x) THEN GCD(Abs(y[1]), x[2]) ELSE 1
             a  == IF g1 = 0 THEN 1 ELSE g1
             b  == IF g2 = 0 THEN 1 ELSE g2
         IN  Norm((x[1] \div a) * (y[1] \div b), (x[2] \div b) * (y[2] \div a))

\* x / y as numpy.float64 computes it: a zero divisor gives inf, -inf or NaN.
FDiv(x, y) ==
    IF IsNaN(x) \/ IsNaN(y) THEN NaN
    ELSE IF ~IsFinite(x) /\ ~IsFinite(y) THEN NaN
    ELSE IF ~IsFinite(y) THEN Zero
    ELSE IF y[1] = 0 THEN <<Sgn(x[1]), 0>>
    ELSE FMul(x, <<Sgn(y[1]) * y[2], Abs(y[1])>>)

\* x <= y; a comparison with NaN is false.
FLe(x, y) ==
    IF IsNaN(x) \/ IsNaN(y) THEN FALSE
    ELSE IF IsFinite(x) /\ IsFinite(y) THEN x[1] * y[2] <= y[1] * x[2]
    ELSE IF x = y THEN TRUE
    ELSE x = <<-1, 0>> \/ y = <<1, 0>>

FGe(x, y) == FLe(y, x)

\* ------------------------------------------------------------------ inputs
\* BacktestEngine.__init__ defaults.
InitialCapital == 1000000

\* (commission_rate, slippage) pairs the engine is constructed with; the
\* constructor takes whatever it is given, a negative rate included.
Configs == { <<Zero, Zero>>, <<Norm(1, 100), Norm(1, 50)>>, <<Norm(-1, 100), Zero>> }

AllFields == {"close", "low", "high"}

Row(fields, low, close, high) ==
    [fields |-> fields, low |-> F(low), close |-> F(close), high |-> F(high)]

\* Rows of the OHLCV DataFrame: three complete bars (one that triggers only
\* a limit buy at 54, one that triggers both sides, one that triggers only a
\* limit sell), a bar of a frame without a close column and a bar of a frame
\* of closes only.  A column the frame lacks is missing from `fields` and
\* reading it raises KeyError.
Rows ==
    { Row(AllFields, 48, 50, 51),
      Row(AllFields, 53, 55, 57),
      Row(AllFields, 58, 60, 61),
      Row({"low", "high"}, 53, 0, 57),
      Row({"close"}, 0, 50, 0) }

\* Order (dataclass): price is None for a market order.
MarketOrder(symbol, side, quantity, timestamp) ==
    [symbol |-> symbol, order_type |-> "market", side |-> side,
     quantity |-> quantity, price |-> Zero, timestamp |-> timestamp]

LimitOrder(symbol, side, quantity, price, timestamp) ==
    [symbol |-> symbol, order_type |-> "limit", side |-> side,
     quantity |-> quantity, price |-> price, timestamp |-> timestamp]

\* Position.__init__: a new position has no realized or unrealized PnL.
\* avg_np records whether avg_price is a numpy.float64 (TRUE) or a Python
\* float (FALSE).
Position(symbol, quantity, avg_price, avg_np) ==
    [symbol |-> symbol, quantity |-> quantity, avg_price |-> avg_price,
     avg_np |-> avg_np, realized_pnl |-> Zero, unrealized_pnl |-> Zero]

\* ------------------------------------------------------------------- state
VARIABLES
    initial_capital,   \* self.initial_capital
    commission_rate,   \* self.commission_rate
    slippage,          \* self.slippage
    current_capital,   \* self.current_capital
    positions,         \* self.positions: symbol -> Position
    orders,            \* self.orders: pending orders, in submission order
    trades,            \* self.trades
    equity_curve,      \* self.equity_curve
    placed,            \* number of place_order calls so far (the clock of Order.timestamp)
    clock,             \* number of rows handed to the engine so far (the row's index)
    row,               \* the row handled last
    raised,            \* exception the last call propagated to its caller, or "none"
    twin,              \* a second run of the program on the same inputs
    metrics            \* what the last get_performance_metrics call returned

vars == <<initial_capital, commission_rate, slippage, current_capital, positions,
          orders, trades, equity_curve, placed, clock, row, raised, twin, metrics>>

NoRow == Row({}, 0, 0, 0)

\* The readings of the wall clock (datetime.now() in Order.__post_init__) of
\* a second run of the program, relative to the first run's: the same, or
\* one tick later.
ClockSkews == {0, 1}

\* The engine of a second run, as its __init__ leaves it, with the skew of
\* that run's wall clock.
TwinRun(skew) ==
    [skew |-> skew, current_capital |-> F(InitialCapital),
     positions |-> [s \in {} |-> Zero], orders |-> << >>, trades |-> << >>,
     equity_curve |-> << >>, raised |-> "none"]

\* BacktestEngine.__init__
InitEngine ==
    /\ initial_capital = F(InitialCapital)
    /\ \E c \in Configs : commission_rate = c[1] /\ slippage = c[2]
    /\ current_capital = F(InitialCapital)
    /\ positions = [s \in {} |-> Zero]
    /\ orders = << >>
    /\ trades = << >>
    /\ equity_curve = << >>
    /\ placed = 0
    /\ clock = 0
    /\ row = NoRow
    /\ raised = "none"

\* No get_performance_metrics call made yet.
NoMetrics == [called |-> FALSE, result |-> << >>]

\* One run of the program.
Init == InitEngine /\ twin = TwinRun(0) /\ metrics = NoMetrics

\* Two runs of the program, the second with any skew of its wall clock.
InitTwin ==
    /\ InitEngine
    /\ \E skew \in ClockSkews : twin = TwinRun(skew)
    /\ metrics = NoMetrics

\* ---------------------------------------------------------------- helpers
\* d[k] = v on a dict
DictSet(d, k, v) == [s \in DOMAIN d \cup {k} |-> IF s = k THEN v ELSE d[s]]

\* del d[k]
DictDel(d, k) == [s \in DOMAIN d \ {k} |-> d[s]]

\* The part of the engine a bar's processing changes step by step, with the
\* exception in flight ("none" while there is none).
Engine(capital, pos, trs, exc) ==
    [capital |-> capital, positions |-> pos, trades |-> trs, raised |-> exc]

\* ------------------------------------------------------- BacktestEngine
\* _update_positions: mark every open position to the row's close.  The row
\* is read inside the loop, so a missing close raises only when a position
\* is open.
UpdatePositions(pos, r) ==
    [s \in DOMAIN pos |->
        [pos[s] EXCEPT !.unrealized_pnl =
            FMul(F(pos[s].quantity), FSub(r.close, pos[s].avg_price))]]

UpdatePositionsRaises(pos, r) == DOMAIN pos # {} /\ "close" \notin r.fields

\* _should_execute_limit_order
ShouldExecuteLimitOrder(order, r) ==
    IF order.side = "buy"
    THEN FLe(r.low, order.price)
    ELSE FGe(r.high, order.price)

\* The column _should_execute_limit_order reads.
LimitField(order) == IF order.side = "buy" THEN "low" ELSE "high"

\* Mutant of MarketPrice: the slippage is left out.
MarketPrice_NoSlippage(order, r, slip) == r.close

\* The fill price of a market order: close with slippage against the order.
MarketPrice(order, r, slip) ==
    FMul(r.close, IF order.side = "buy" THEN FAdd(One, slip) ELSE FSub(One, slip))

\* commission = order.quantity * price * self.commission_rate
Commission(order, price, rate) == FMul(FMul(F(order.quantity), price), rate)

\* The capital after "Update capital" in _execute_order.
CapitalAfter(capital, order, price, commission) ==
    IF order.side = "buy"
    THEN FSub(capital, FAdd(FMul(F(order.quantity), price), commission))
    ELSE FAdd(capital, FSub(FMul(F(order.quantity), price), commission))

\* The trade dict _execute_order appends.
Trade(order, price, commission) ==
    [timestamp |-> order.timestamp, symbol |-> order.symbol, side |-> order.side,
     quantity |-> order.quantity, price |-> price, commission |-> commission]

\* Mutant of BuyExisting: the average price is overwritten with the price of
\* the last buy.
BuyExisting_LastPrice(p, order, price, price_np) ==
    [p EXCEPT !.quantity = p.quantity + order.quantity,
              !.avg_price = price,
              !.avg_np = price_np]

\* "Update position" for a buy on an existing position.  The quantity is
\* updated in place before the division; a Python-float division by zero
\* raises ZeroDivisionError and leaves the average price as it was.
BuyExisting(p, order, price, price_np) ==
    LET total_cost == FAdd(FMul(F(p.quantity), p.avg_price),
                           FMul(F(order.quantity), price))
        quantity   == p.quantity + order.quantity
        np         == p.avg_np \/ price_np
    IN  IF quantity = 0 /\ ~np
        THEN [p EXCEPT !.quantity = quantity]
        ELSE [p EXCEPT !.quantity = quantity,
                       !.avg_price = FDiv(total_cost, F(quantity)),
                       !.avg_np = np]

BuyExistingRaises(p, order, price_np) ==
    p.quantity + order.quantity = 0 /\ ~(p.avg_np \/ price_np)

\* Mutant of SellExisting: the PnL of a sell is taken against the fill price
\* alone.
SellExisting_NoCostBasis(p, order, price) ==
    [p EXCEPT !.realized_pnl = FAdd(p.realized_pnl, FMul(price, F(order.quantity))),
              !.quantity = p.quantity - order.quantity]

\* "Update position" for a sell on an existing position.
SellExisting(p, order, price) ==
    LET pnl == FMul(FSub(price, p.avg_price), F(order.quantity))
    IN  [p EXCEPT !.realized_pnl = FAdd(p.realized_pnl, pnl),
                  !.quantity = p.quantity - order.quantity]

\* Mutant of PositionsAfter: a sell of a symbol without a position opens a
\* short position.
PositionsAfter_ShortOnSell(pos, order, price, price_np) ==
    IF order.symbol \in DOMAIN pos
    THEN IF order.side = "buy"
         THEN DictSet(pos, order.symbol,
                      BuyExisting(pos[order.symbol], order, price, price_np))
         ELSE LET p == SellExisting(pos[order.symbol], order, price)
              IN  IF p.quantity = 0
                  THEN DictDel(pos, order.symbol)
                  ELSE DictSet(pos, order.symbol, p)
    ELSE DictSet(pos, order.symbol,
                 Position(order.symbol,
                          IF order.side = "buy" THEN order.quantity ELSE -order.quantity,
                          price, price_np))

\* Mutant of PositionsAfter: a position sold out stays in the ledger at
\* quantity 0, with the realized PnL it has accumulated.
PositionsAfter_KeepClosed(pos, order, price, price_np) ==
    IF order.symbol \in DOMAIN pos
    THEN IF order.side = "buy"
         THEN DictSet(pos, order.symbol,
                      BuyExisting(pos[order.symbol], order, price, price_np))
         ELSE DictSet(pos, order.symbol,
                      SellExisting(pos[order.symbol], order, price))
    ELSE IF order.side = "buy"
         THEN DictSet(pos, order.symbol,
                      Position(order.symbol, order.quantity, price, price_np))
         ELSE pos

\* The ledger after "Update position" in _execute_order.
PositionsAfter(pos, order, price, price_np) ==
    IF order.symbol \in DOMAIN pos
    THEN IF order.side = "buy"
         THEN DictSet(pos, order.symbol,
                      BuyExisting(pos[order.symbol], order, price, price_np))
         ELSE LET p == SellExisting(pos[order.symbol], order, price)
              IN  IF p.quantity = 0
                  THEN DictDel(pos, order.symbol)
                  ELSE DictSet(pos, order.symbol, p)
    ELSE IF order.side = "buy"
         THEN DictSet(pos, order.symbol,
                      Position(order.symbol, order.quantity, price, price_np))
         ELSE pos

\* Mutant of ExecuteOrder: a buy that costs more than the capital at hand
\* is refused and changes nothing.
ExecuteOrder_FundsCheck(e, order, price, price_np, rate) ==
    LET commission == Commission(order, price, rate)
        capital    == CapitalAfter(e.capital, order, price, commission)
        pos        == PositionsAfter(e.positions, order, price, price_np)
        raises     == /\ order.symbol \in DOMAIN e.positions
                      /\ order.side = "buy"
                      /\ BuyExistingRaises(e.positions[order.symbol], order, price_np)
    IN  IF order.side = "buy" /\ ~FLe(Zero, capital)
        THEN e
        ELSE IF raises
        THEN Engine(capital, pos, e.trades, "ZeroDivisionError")
        ELSE Engine(capital, pos, Append(e.trades, Trade(order, price, commission)),
                    "none")

\* _execute_order: capital, then the ledger, then the trade log.  An
\* exception in the ledger update leaves capital and the quantity changed
\* and appends no trade.
ExecuteOrder(e, order, price, price_np, rate) ==
    LET commission == Commission(order, price, rate)
        capital    == CapitalAfter(e.capital, order, price, commission)
        pos        == PositionsAfter(e.positions, order, price, price_np)
        raises     == /\ order.symbol \in DOMAIN e.positions
                      /\ order.side = "buy"
                      /\ BuyExistingRaises(e.positions[order.symbol], order, price_np)
    IN  IF raises
        THEN Engine(capital, pos, e.trades, "ZeroDivisionError")
        ELSE Engine(capital, pos, Append(e.trades, Trade(order, price, commission)),
                    "none")

\* _execute_market_order: the price comes from the row (numpy.float64).
ExecuteMarketOrder(e, order, r, slip, rate) ==
    IF "close" \notin r.fields
    THEN [e EXCEPT !.raised = "KeyError"]
    ELSE ExecuteOrder(e, order, MarketPrice(order, r, slip), TRUE, rate)

\* Mutant of ExecuteLimitOrder: the order fills at the row's close when that
\* is better than the limit (price improvement).
ExecuteLimitOrder_PriceImprovement(e, order, r, rate) ==
    LET better == IF order.side = "buy"
                  THEN "close" \in r.fields /\ FLe(r.close, order.price)
                  ELSE "close" \in r.fields /\ FGe(r.close, order.price)
    IN  ExecuteOrder(e, order, IF better THEN r.close ELSE order.price,
                     better, rate)

\* _execute_limit_order: the price is the order's own (Python float).
ExecuteLimitOrder(e, order, r, rate) ==
    ExecuteOrder(e, order, order.price, FALSE, rate)

\* _process_orders: the loop over self.orders from index i on, with the
\* orders kept so far.  The result is the engine and remaining_orders; an
\* exception ends the loop at once.
RECURSIVE ProcessOrdersFrom(_, _, _, _, _, _, _)
ProcessOrdersFrom(e, queue, i, remaining, r, slip, rate) ==
    IF i > Len(queue) \/ e.raised # "none"
    THEN [engine |-> e, remaining |-> remaining]
    ELSE LET order == queue[i] IN
         IF order.order_type = "market"
         THEN ProcessOrdersFrom(ExecuteMarketOrder(e, order, r, slip, rate),
                                queue, i + 1, remaining, r, slip, rate)
         ELSE IF LimitField(order) \notin r.fields
         THEN ProcessOrdersFrom([e EXCEPT !.raised = "KeyError"],
                                queue, i + 1, remaining, r, slip, rate)
         ELSE IF ShouldExecuteLimitOrder(order, r)
         THEN ProcessOrdersFrom(ExecuteLimitOrder(e, order, r, rate),
                                queue, i + 1, remaining, r, slip, rate)
         ELSE ProcessOrdersFrom(e, queue, i + 1, Append(remaining, order),
                                r, slip, rate)

\* Mutant of ProcessOrders: the queue is walked from its tail, the newest
\* order first.
ProcessOrders_NewestFirst(e, queue, r, slip, rate) ==
    ProcessOrdersFrom(e, [i \in 1..Len(queue) |-> queue[Len(queue) + 1 - i]],
                      1, << >>, r, slip, rate)

ProcessOrders(e, queue, r, slip, rate) ==
    ProcessOrdersFrom(e, queue, 1, << >>, r, slip, rate)

\* The total equity _record_equity computes: capital plus every open
\* position at its average price.
RECURSIVE SumPositions(_, _)
SumPositions(pos, syms) ==
    IF syms = {} THEN Zero
    ELSE LET s == CHOOSE x \in syms : TRUE
         IN  FAdd(FMul(F(pos[s].quantity), pos[s].avg_price),
                  SumPositions(pos, syms \ {s}))

\* Mutant of TotalEquity: open positions are valued at the bar's close (cost
\* plus the unrealized PnL of the mark-to-market).
TotalEquity_MarkToMarket(capital, pos) ==
    LET marked == [s \in DOMAIN pos |->
                     [pos[s] EXCEPT !.avg_price =
                        FAdd(pos[s].avg_price,
                             FDiv(pos[s].unrealized_pnl, F(pos[s].quantity)))]]
    IN  FAdd(capital, SumPositions(marked, DOMAIN marked))

TotalEquity(capital, pos) == FAdd(capital, SumPositions(pos, DOMAIN pos))

EquitySample(timestamp, capital, pos) ==
    [timestamp |-> timestamp, equity |-> TotalEquity(capital, pos)]

\* ----------------------------------------------------------------- actions
\* place_order: append to the queue.  Order.__post_init__ stamps the order
\* with the wall clock, modelled as the count of orders created.
PlaceOrder(order) ==
    /\ placed + clock < MaxSteps
    /\ orders' = Append(orders, order)
    /\ placed' = placed + 1
    /\ raised' = "none"
    /\ UNCHANGED <<initial_capital, commission_rate, slippage, current_capital,
                   positions, trades, equity_curve, clock, row>>

\* Mutant of ProcessBar: the positions are marked to the row's close after
\* the orders are processed instead of before.
ProcessBar_MarkAfterFills(r) ==
    /\ placed + clock < MaxSteps
    /\ clock' = clock + 1
    /\ row' = r
    /\ UNCHANGED <<initial_capital, commission_rate, slippage, placed>>
    /\ \E res \in {ProcessOrders(Engine(current_capital, positions, trades, "none"),
                                  orders, r, slippage, commission_rate)} :
         /\ current_capital' = res.engine.capital
         /\ trades' = res.engine.trades
         /\ IF res.engine.raised # "none"
            THEN /\ raised' = res.engine.raised
                 /\ positions' = res.engine.positions
                 /\ UNCHANGED <<orders, equity_curve>>
            ELSE IF UpdatePositionsRaises(res.engine.positions, r)
            THEN /\ raised' = "KeyError"
                 /\ positions' = res.engine.positions
                 /\ UNCHANGED <<orders, equity_curve>>
            ELSE /\ raised' = "none"
                 /\ positions' = UpdatePositions(res.engine.positions, r)
                 /\ orders' = res.remaining
                 /\ equity_curve' =
                       Append(equity_curve,
                              EquitySample(clock + 1, res.engine.capital,
                                           res.engine.positions))

\* process_market_data, one iteration of its loop: _update_positions,
\* _process_orders, _record_equity.  An exception leaves the loop and the
\* call, with self.orders not reassigned and no equity sample recorded.
ProcessBar(r) ==
    /\ placed + clock < MaxSteps
    /\ clock' = clock + 1
    /\ row' = r
    /\ UNCHANGED <<initial_capital, commission_rate, slippage, placed>>
    /\ IF UpdatePositionsRaises(positions, r)
       THEN /\ raised' = "KeyError"
            /\ UNCHANGED <<current_capital, positions, orders, trades, equity_curve>>
       ELSE \E res \in {ProcessOrders(Engine(current_capital,
                                             UpdatePositions(positions, r),
                                             trades, "none"),
                                      orders, r, slippage, commission_rate)} :
            /\ current_capital' = res.engine.capital
            /\ positions' = res.engine.positions
            /\ trades' = res.engine.trades
            /\ raised' = res.engine.raised
            /\ IF res.engine.raised = "none"
               THEN /\ orders' = res.remaining
                    /\ equity_curve' =
                          Append(equity_curve,
                                 EquitySample(clock + 1, res.engine.capital,
                                              res.engine.positions))
               ELSE UNCHANGED <<orders, equity_curve>>

\* The orders a caller submits, stamped with the time of their creation:
\* buys of 100, sells of 100 and of 200 (more than one buy holds), at the
\* market or with a limit of 54, and a second symbol; place_order takes any
\* Order, so also a buy of nothing and a limit sell at a price of 0.
Orders(timestamp) ==
    { MarketOrder("AAPL", "buy", 100, timestamp),
      MarketOrder("AAPL", "buy", 0, timestamp),
      LimitOrder("AAPL", "sell", 100, Zero, timestamp),
      MarketOrder("AAPL", "sell", 100, timestamp),
      MarketOrder("AAPL", "sell", 200, timestamp),
      MarketOrder("MSFT", "buy", 100, timestamp),
      MarketOrder("MSFT", "sell", 100, timestamp),
      LimitOrder("AAPL", "buy", 100, F(54), timestamp),
      LimitOrder("AAPL", "sell", 100, F(54), timestamp) }

Next ==
    \/ \E order \in Orders(placed + 1) : PlaceOrder(order) /\ UNCHANGED <<twin, metrics>>
    \/ \E r \in Rows : ProcessBar(r) /\ UNCHANGED <<twin, metrics>>

Spec == Init /\ [][Next]_vars

\* An engine constructed with little capital: enough for one buy of 100,
\* not for three.
SmallCapital == 10000

InitSmallCapital ==
    /\ initial_capital = F(SmallCapital)
    /\ \E c \in Configs : commission_rate = c[1] /\ slippage = c[2]
    /\ current_capital = F(SmallCapital)
    /\ positions = [s \in {} |-> Zero]
    /\ orders = << >>
    /\ trades = << >>
    /\ equity_curve = << >>
    /\ placed = 0
    /\ clock = 0
    /\ row = NoRow
    /\ raised = "none"
    /\ twin = TwinRun(0)
    /\ metrics = NoMetrics

SpecSmallCapital == InitSmallCapital /\ [][Next]_vars

\* place_order in the second run: the same Order(...) call creates the
\* order, stamped by that run's wall clock.
PlaceOrderTwin(order) ==
    twin' = [twin EXCEPT
               !.orders = Append(@, [order EXCEPT !.timestamp = @ + twin.skew]),
               !.raised = "none"]

\* process_market_data in the second run, on the same row.
ProcessBarTwin(r) ==
    IF UpdatePositionsRaises(twin.positions, r)
    THEN twin' = [twin EXCEPT !.raised = "KeyError"]
    ELSE \E res \in {ProcessOrders(Engine(twin.current_capital,
                                          UpdatePositions(twin.positions, r),
                                          twin.trades, "none"),
                                   twin.orders, r, slippage, commission_rate)} :
         twin' = [twin EXCEPT
                    !.current_capital = res.engine.capital,
                    !.positions = res.engine.positions,
                    !.trades = res.engine.trades,
                    !.raised = res.engine.raised,
                    !.orders = IF res.engine.raised = "none"
                               THEN res.remaining ELSE @,
                    !.equity_curve =
                        IF res.engine.raised = "none"
                        THEN Append(@, EquitySample(clock + 1, res.engine.capital,
                                                    res.engine.positions))
                        ELSE @]

\* Two runs side by side: every call is made in both, with the same
\* arguments.
NextTwin ==
    \/ \E order \in Orders(placed + 1) :
          PlaceOrder(order) /\ PlaceOrderTwin(order) /\ UNCHANGED metrics
    \/ \E r \in Rows : ProcessBar(r) /\ ProcessBarTwin(r) /\ UNCHANGED metrics

SpecTwin == InitTwin /\ [][NextTwin]_vars

\* ------------------------------------------------ get_performance_metrics
\* The computation runs on pandas and numpy values: a division by zero
\* gives inf or NaN and raises nothing; mean() and std() skip NaN entries.
\* std() is a square root, which a rational cannot hold: the model carries
\* the variance, and the Sharpe ratio s as its signed square s*|s|, which
\* is 0, NaN or infinite exactly when s is.

\* The annualisation factor under the square root (np.sqrt(252)).
TradingDays == 252

FAbs(x) == <<Abs(x[1]), x[2]>>

\* x > 0; false for NaN.
FPositive(x) == FLe(Zero, x) /\ x # Zero

FMax(x, y) == IF FLe(x, y) THEN y ELSE x

\* equity_df['equity']
EquityColumn(curve) == [i \in 1..Len(curve) |-> curve[i].equity]

\* Series.pct_change(): no return for the first sample.
PctChange(equity) ==
    [i \in 1..Len(equity) |->
        IF i = 1 THEN NaN ELSE FSub(FDiv(equity[i], equity[i - 1]), One)]

\* The number and the sum of the entries of series[1..n] that are not NaN.
RECURSIVE CountValid(_, _)
CountValid(series, n) ==
    IF n = 0 THEN 0
    ELSE CountValid(series, n - 1) + (IF IsNaN(series[n]) THEN 0 ELSE 1)

RECURSIVE SumValid(_, _)
SumValid(series, n) ==
    IF n = 0 THEN Zero
    ELSE IF IsNaN(series[n]) THEN SumValid(series, n - 1)
    ELSE FAdd(SumValid(series, n - 1), series[n])

\* Series.mean(): NaN when no entry is left.
Mean(series) ==
    LET count == CountValid(series, Len(series))
    IN  IF count = 0 THEN NaN
        ELSE FDiv(SumValid(series, Len(series)), F(count))

\* The square of Series.std(): the sample variance (ddof = 1), NaN with
\* fewer than two entries.
Variance(series) ==
    LET count == CountValid(series, Len(series))
        mean  == Mean(series)
        sq    == [i \in 1..Len(series) |->
                    IF IsNaN(series[i]) THEN NaN
                    ELSE FMul(FSub(series[i], mean), FSub(series[i], mean))]
    IN  IF count < 2 THEN NaN
        ELSE FDiv(SumValid(sq, Len(sq)), F(count - 1))

\* The signed square of np.sqrt(252) * returns.mean() / returns.std().
SharpeSquared(returns) ==
    LET mean == Mean(returns)
        var  == Variance(returns)
    IN  FDiv(FMul(F(TradingDays), FMul(mean, FAbs(mean))), var)

\* Series.cummax() at index i.
RECURSIVE CumMax(_, _)
CumMax(equity, i) ==
    IF i = 1 THEN equity[1] ELSE FMax(CumMax(equity, i - 1), equity[i])

\* (cummax - equity).max(): the largest gap below the running maximum.
RECURSIVE MaxGap(_, _)
MaxGap(equity, n) ==
    LET gap == FSub(CumMax(equity, n), equity[n])
    IN  IF n = 1 THEN gap ELSE FMax(MaxGap(equity, n - 1), gap)

\* max_drawdown: the largest gap, a scalar, divided by the Series of
\* running maxima: a Series with one entry per sample.
MaxDrawdown(equity) ==
    [i \in 1..Len(equity) |-> FDiv(MaxGap(equity, Len(equity)), CumMax(equity, i))]

\* (returns > 0).mean(): the share of the samples, the first included,
\* whose return is positive.
WinRate(returns) ==
    FDiv(F(Cardinality({i \in 1..Len(returns) : FPositive(returns[i])})),
         F(Len(returns)))

\* What a call returns, or the exception it propagates.
Returned(result) == [raised |-> "none", result |-> result]

\* Mutant of PerformanceMetrics: the guard for an empty equity curve is
\* missing, and the DataFrame of no samples has no 'equity' column.
PerformanceMetrics_NoEmptyGuard(curve, trs, initial) ==
    IF curve = << >>
    THEN [raised |-> "KeyError", result |-> << >>]
    ELSE Returned([total_return |-> FSub(FDiv(curve[Len(curve)].equity, initial), One),
                   sharpe_ratio |-> SharpeSquared(PctChange(EquityColumn(curve))),
                   max_drawdown |-> MaxDrawdown(EquityColumn(curve)),
                   win_rate |-> WinRate(PctChange(EquityColumn(curve))),
                   total_trades |-> Len(trs)])

\* get_performance_metrics: an empty dict for an empty equity curve, the
\* five metrics otherwise.
PerformanceMetrics(curve, trs, initial) ==
    IF curve = << >>
    THEN Returned(<< >>)
    ELSE LET equity  == EquityColumn(curve)
             returns == PctChange(equity)
         IN  Returned([total_return |-> FSub(FDiv(equity[Len(equity)], initial), One),
                       sharpe_ratio |-> SharpeSquared(returns),
                       max_drawdown |-> MaxDrawdown(equity),
                       win_rate |-> WinRate(returns),
                       total_trades |-> Len(trs)])

GetPerformanceMetrics ==
    /\ \E res \in {PerformanceMetrics(equity_curve, trades, initial_capital)} :
          /\ raised' = res.raised
          /\ metrics' = [called |-> TRUE, result |-> res.result]
    /\ UNCHANGED <<initial_capital, commission_rate, slippage, current_capital,
                   positions, orders, trades, equity_curve, placed, clock, row, twin>>

\* The inputs of get_performance_metrics at the end of a run: the equity
\* samples of up to MaxSamples bars and the trades of up to two fills.
EquityValues == {F(800000), F(1000000), F(1250000)}

EquityCurves ==
    UNION { { [i \in 1..n |-> [timestamp |-> i, equity |-> e[i]]] :
                e \in [1..n -> EquityValues] } : n \in 0..MaxSamples }

TradeLogs ==
    { SubSeq(<<Trade(MarketOrder("AAPL", "buy", 100, 1), F(50), Zero),
               Trade(MarketOrder("AAPL", "sell", 100, 2), F(55), Zero)>>, 1, n) :
        n \in 0..2 }

\* An engine at the end of a run that has closed all its positions (the
\* last equity sample is then its capital).
InitMetrics ==
    /\ initial_capital = F(InitialCapital)
    /\ \E c \in Configs : commission_rate = c[1] /\ slippage = c[2]
    /\ equity_curve \in EquityCurves
    /\ trades \in TradeLogs
    /\ current_capital = IF equity_curve = << >> THEN F(InitialCapital)
                         ELSE equity_curve[Len(equity_curve)].equity
    /\ positions = [s \in {} |-> Zero]
    /\ orders = << >>
    /\ placed = Len(trades)
    /\ clock = Len(equity_curve)
    /\ row = NoRow
    /\ raised = "none"
    /\ twin = TwinRun(0)
    /\ metrics = NoMetrics

NextMetrics == GetPerformanceMetrics

SpecMetrics == InitMetrics /\ [][NextMetrics]_vars

\* ------------------------------------------------------------------ claims
\* The signed cash flow of a trade of the log: what a buy costs (negative),
\* what a sell brings in.
CashFlow(t) ==
    LET gross == FMul(F(t.quantity), t.price)
    IN  IF t.side = "buy"
        THEN FNeg(FAdd(gross, t.commission))
        ELSE FSub(gross, t.commission)

\* The sum of the cash flows of the trades log[from..to].
RECURSIVE SumCashFlow(_, _, _)
SumCashFlow(log, from, to) ==
    IF to < from THEN Zero
    ELSE CHOOSE sum \in { FAdd(before, CashFlow(log[to])) :
                             before \in {SumCashFlow(log, from, to - 1)} } : TRUE

\* C1: in every state, capital equals initial_capital minus the cost and
\* commission of every buy in the trade log plus the proceeds less commission
\* of every sell in it.
C1_CapitalMatchesTradeLog ==
    current_capital = FAdd(initial_capital, SumCashFlow(trades, 1, Len(trades)))

\* A step that hands one row to the engine.
IsBarStep == clock' = clock + 1

\* The pending order a trade of the log was made for: a trade carries its
\* order's timestamp, and no two orders are created at the same time.
OrderAt(timestamp) ==
    CHOOSE i \in 1..Len(orders) : orders[i].timestamp = timestamp

\* The trades a step appends.
NewTradeIndexes == (Len(trades) + 1)..Len(trades')

\* C2: every trade a bar appends for a market order has fill price
\* close*(1+slippage) for a buy and close*(1-slippage) for a sell, and
\* commission quantity*fill price*commission_rate; when only market orders
\* are pending, every one of them fills and capital moves by exactly the sum
\* over the fills of -(quantity*price + commission) for a buy and
\* +(quantity*price - commission) for a sell.
C2_MarketFill ==
    [][ IsBarStep =>
        /\ \A k \in NewTradeIndexes :
             LET t == trades'[k]
                 o == orders[OrderAt(t.timestamp)]
             IN  o.order_type = "market" =>
                 /\ "close" \in row'.fields
                 /\ t.symbol = o.symbol /\ t.side = o.side /\ t.quantity = o.quantity
                 /\ t.price = IF o.side = "buy"
                              THEN FMul(row'.close, FAdd(One, slippage))
                              ELSE FMul(row'.close, FSub(One, slippage))
                 /\ t.commission = FMul(FMul(F(o.quantity), t.price), commission_rate)
        /\ ( /\ "close" \in row'.fields
             /\ \A i \in 1..Len(orders) : orders[i].order_type = "market" )
           => /\ Len(trades') = Len(trades) + Len(orders)
              /\ \A i \in 1..Len(orders) :
                   trades'[Len(trades) + i].timestamp = orders[i].timestamp
              /\ current_capital' =
                   FAdd(current_capital,
                        SumCashFlow(trades', Len(trades) + 1, Len(trades')))
      ]_vars

\* Witness of C2: with slippage and commission, a market buy and then a
\* market sell have filled at close*(1+slippage) and close*(1-slippage).
C2_Witness ==
    /\ slippage # Zero /\ commission_rate # Zero
    /\ raised = "none"
    /\ Len(trades) = 2
    /\ trades[1].side = "buy" /\ trades[1].price = F(51)
    /\ trades[1].commission = F(51)
    /\ trades[2].side = "sell" /\ trades[2].price = Norm(539, 10)
    /\ current_capital = FAdd(FSub(initial_capital, F(5100 + 51)),
                              FSub(F(5390), Norm(539, 10)))

\* C3: every trade a bar appends for a limit order is at exactly the limit
\* price, and the bar has low <= limit for a buy, high >= limit for a sell.
C3_LimitFill ==
    [][ IsBarStep =>
        \A k \in NewTradeIndexes :
           LET t == trades'[k]
               o == orders[OrderAt(t.timestamp)]
           IN  o.order_type = "limit" =>
               /\ t.price = o.price
               /\ t.symbol = o.symbol /\ t.side = o.side /\ t.quantity = o.quantity
               /\ IF o.side = "buy"
                  THEN "low" \in row'.fields /\ FLe(row'.low, o.price)
                  ELSE "high" \in row'.fields /\ FGe(row'.high, o.price)
      ]_vars

\* Witness of C3: a limit buy and a limit sell have filled at the limit on a
\* bar whose close is another price.
C3_Witness ==
    /\ raised = "none"
    /\ Len(trades) = 2
    /\ trades[1].side = "buy" /\ trades[2].side = "sell"
    /\ trades[1].price = F(54) /\ trades[2].price = F(54)
    /\ row.close = F(55) /\ row.low = F(53) /\ row.high = F(57)
    /\ clock = 1

\* Whether a row satisfies a limit order's trigger condition.
Triggers(r, o) ==
    IF o.side = "buy"
    THEN "low" \in r.fields /\ FLe(r.low, o.price)
    ELSE "high" \in r.fields /\ FGe(r.high, o.price)

\* Whether a step appends a trade for the pending order o.
Fills(o) == \E k \in NewTradeIndexes : trades'[k].timestamp = o.timestamp

\* Whether the order o is pending after a step.
StillQueued(o) == \E j \in 1..Len(orders') : orders'[j] = o

\* C4: on every complete bar, a pending limit order the bar does not
\* trigger is still pending after it (however many bars it has waited), and
\* one the bar triggers fills on it and leaves the queue.
C4_LimitWaitsThenFills ==
    [][ (IsBarStep /\ row'.fields = AllFields) =>
        \A i \in 1..Len(orders) :
           orders[i].order_type = "limit" =>
              IF Triggers(row', orders[i])
              THEN Fills(orders[i]) /\ ~StillQueued(orders[i])
              ELSE ~Fills(orders[i]) /\ StillQueued(orders[i])
      ]_vars

\* C5: on every complete bar, every pending market order fills in full, and
\* no market order is pending after the bar.
C5_MarketOrdersAlwaysFill ==
    [][ (IsBarStep /\ row'.fields = AllFields) =>
        /\ \A i \in 1..Len(orders) :
             orders[i].order_type = "market" =>
                \E k \in NewTradeIndexes :
                   /\ trades'[k].timestamp = orders[i].timestamp
                   /\ trades'[k].quantity = orders[i].quantity
        /\ \A j \in 1..Len(orders') : orders'[j].order_type # "market"
      ]_vars

\* C6: the trade log only grows at its end; a step appends at most one trade
\* for an order, and an order a trade was appended for is no longer pending,
\* so no order ever has two trades.
C6_OneTradePerOrderAppendOnly ==
    [][ /\ Len(trades') >= Len(trades)
        /\ SubSeq(trades', 1, Len(trades)) = trades
        /\ \A k \in NewTradeIndexes :
             /\ \A j \in 1..Len(orders') : orders'[j].timestamp # trades'[k].timestamp
             /\ \A m \in NewTradeIndexes :
                  trades'[m].timestamp = trades'[k].timestamp => m = k
             /\ \A m \in 1..Len(trades) : trades[m].timestamp # trades'[k].timestamp
      ]_vars

\* The quantity held of a symbol: 0 without a position.
Held(pos, symbol) == IF symbol \in DOMAIN pos THEN pos[symbol].quantity ELSE 0

\* The ledger without the mark-to-market figure, which every bar refreshes.
Holdings(pos) ==
    [s \in DOMAIN pos |-> <<pos[s].quantity, pos[s].avg_price, pos[s].realized_pnl>>]

\* C7: when the only pending order is a sell of more than is held, and a
\* complete bar would fill it (a market order, or a triggered limit order),
\* the order is rejected with InsufficientPositionError and capital, the
\* ledger and the trade log stay as they were.
C7_OversellRejected ==
    [][ ( /\ IsBarStep /\ row'.fields = AllFields
          /\ Len(orders) = 1
          /\ orders[1].side = "sell"
          /\ orders[1].quantity > Held(positions, orders[1].symbol)
          /\ (orders[1].order_type = "limit" => Triggers(row', orders[1])) )
        => /\ raised' = "InsufficientPositionError"
           /\ current_capital' = current_capital
           /\ Holdings(positions') = Holdings(positions)
           /\ trades' = trades
      ]_vars

\* C8: every position in the ledger has quantity > 0.
C8_PositionsArePositive ==
    \A s \in DOMAIN positions : positions[s].quantity > 0

\* The pending orders for a symbol, and the trades a step appends for it.
OrdersFor(symbol) == {i \in 1..Len(orders) : orders[i].symbol = symbol}
NewTradesFor(symbol) == {k \in NewTradeIndexes : trades'[k].symbol = symbol}

\* A step whose only effect on the symbol's position is one fill: one order
\* is pending for the symbol and the step appends a trade for it.
SingleFill(symbol) ==
    /\ IsBarStep
    /\ Cardinality(OrdersFor(symbol)) = 1
    /\ Cardinality(NewTradesFor(symbol)) = 1

TheFill(symbol) == trades'[CHOOSE k \in NewTradesFor(symbol) : TRUE]

\* C9: a buy fill of quantity q at price p on an existing position
\* (old_qty, old_avg) leaves quantity old_qty+q and average cost
\* (old_qty*old_avg + q*p)/(old_qty+q); a bar on which only sells are pending
\* for a symbol leaves the average cost of its position, if it is still
\* open, as it was.
C9_AverageCost ==
    [][ \A s \in DOMAIN positions :
          /\ (SingleFill(s) /\ TheFill(s).side = "buy") =>
                LET t == TheFill(s)
                    old == positions[s]
                IN  /\ s \in DOMAIN positions'
                    /\ positions'[s].quantity = old.quantity + t.quantity
                    /\ positions'[s].avg_price =
                         FDiv(FAdd(FMul(F(old.quantity), old.avg_price),
                                   FMul(F(t.quantity), t.price)),
                              F(old.quantity + t.quantity))
          /\ ( /\ IsBarStep
               /\ \A i \in OrdersFor(s) : orders[i].side = "sell"
               /\ s \in DOMAIN positions' )
             => positions'[s].avg_price = positions[s].avg_price
      ]_vars

\* Witness of C9: buy 100 at 50, then buy 100 at 60 on a later bar: the
\* position holds 200 at an average cost of 55.
C9_Witness ==
    /\ Len(trades) = 2
    /\ trades[1].side = "buy" /\ trades[1].quantity = 100 /\ trades[1].price = F(50)
    /\ trades[2].side = "buy" /\ trades[2].quantity = 100 /\ trades[2].price = F(60)
    /\ trades[1].symbol = "AAPL" /\ trades[2].symbol = "AAPL"
    /\ clock = 2 /\ raised = "none"
    /\ Len(equity_curve) = 2 /\ equity_curve[1].equity = F(1000000)
    /\ "AAPL" \in DOMAIN positions
    /\ positions["AAPL"].quantity = 200
    /\ positions["AAPL"].avg_price = F(55)

\* The pending order of the single fill of a symbol.
TheOrder(symbol) == orders[CHOOSE i \in OrdersFor(symbol) : TRUE]

\* C10: a sell fill of quantity q at price p on a position adds
\* (p - average_cost)*q to its realized_pnl, and removes the position when
\* it sells all of it; with zero commission and slippage, buying 100 at 50
\* leaves capital 995,000 and selling them at 55 leaves capital 1,000,500,
\* no position, and a realized_pnl of 500 on the position removed.
C10_RealizedPnl ==
    [][ /\ \A s \in DOMAIN positions :
             (SingleFill(s) /\ TheFill(s).side = "sell") =>
                LET t == TheFill(s)
                    old == positions[s]
                    gain == FMul(FSub(t.price, old.avg_price), F(t.quantity))
                    sold == SellExisting(UpdatePositions(positions, row')[s],
                                         TheOrder(s), t.price)
                IN  /\ sold.realized_pnl = FAdd(old.realized_pnl, gain)
                    /\ IF old.quantity = t.quantity
                       THEN s \notin DOMAIN positions'
                       ELSE /\ s \in DOMAIN positions'
                            /\ positions'[s].realized_pnl = FAdd(old.realized_pnl, gain)
                            /\ positions'[s].quantity = old.quantity - t.quantity
        /\ ( /\ IsBarStep /\ commission_rate = Zero /\ slippage = Zero
             /\ current_capital = F(1000000) /\ DOMAIN positions = {}
             /\ orders = <<MarketOrder("AAPL", "buy", 100, placed)>>
             /\ "close" \in row'.fields /\ row'.close = F(50) )
           => /\ current_capital' = F(995000)
              /\ DOMAIN positions' = {"AAPL"}
              /\ positions'["AAPL"].quantity = 100
              /\ positions'["AAPL"].avg_price = F(50)
        /\ ( /\ IsBarStep /\ commission_rate = Zero /\ slippage = Zero
             /\ current_capital = F(995000) /\ DOMAIN positions = {"AAPL"}
             /\ positions["AAPL"].quantity = 100
             /\ positions["AAPL"].avg_price = F(50)
             /\ positions["AAPL"].realized_pnl = Zero
             /\ orders = <<MarketOrder("AAPL", "sell", 100, placed)>>
             /\ "close" \in row'.fields /\ row'.close = F(55) )
           => /\ current_capital' = F(1000500)
              /\ DOMAIN positions' = {}
              /\ SellExisting(positions["AAPL"], orders[1], F(55)).realized_pnl = F(500)
      ]_vars

\* Witness of C10: with zero commission and slippage, 100 bought at 50 on
\* one bar and sold at 55 on the next: capital 1,000,500 and no position.
C10_Witness ==
    /\ commission_rate = Zero /\ slippage = Zero
    /\ Len(trades) = 2 /\ clock = 2 /\ raised = "none"
    /\ trades[1].side = "buy" /\ trades[1].quantity = 100 /\ trades[1].price = F(50)
    /\ trades[2].side = "sell" /\ trades[2].quantity = 100 /\ trades[2].price = F(55)
    /\ trades[1].symbol = "AAPL" /\ trades[2].symbol = "AAPL"
    /\ Len(equity_curve) = 2 /\ equity_curve[1].equity = F(1000000)
    /\ current_capital = F(1000500)
    /\ DOMAIN positions = {}

\* The cost basis of the position a ledger holds for a symbol: quantity times
\* average cost, nothing when the symbol has no position.
CostBasis(pos, symbol) ==
    IF symbol \in DOMAIN pos
    THEN FMul(F(pos[symbol].quantity), pos[symbol].avg_price)
    ELSE Zero

\* C11: the samples of the equity curve are never altered, and the sample a
\* bar appends equals the capital at the end of the bar plus quantity times
\* average cost of every position then open; with no position open it
\* equals capital exactly.
C11_EquityIsCapitalPlusCostBasis ==
    [][ /\ SubSeq(equity_curve', 1, Len(equity_curve)) = equity_curve
        /\ Len(equity_curve') > Len(equity_curve) =>
              LET sample == equity_curve'[Len(equity_curve')]
              IN  /\ Len(equity_curve') = Len(equity_curve) + 1
                  /\ DOMAIN positions' \subseteq {"AAPL", "MSFT"}
                  /\ sample.equity =
                        FAdd(current_capital',
                             FAdd(CostBasis(positions', "AAPL"),
                                  CostBasis(positions', "MSFT")))
                  /\ DOMAIN positions' = {} => sample.equity = current_capital'
      ]_vars

\* Witness of C11: 100 bought at 50 and held over a bar that closes at 55:
\* the second sample is capital 995,000 plus 100*50, not the marked value,
\* although the position carries an unrealized PnL of 500.
C11_Witness ==
    /\ commission_rate = Zero /\ slippage = Zero
    /\ clock = 2 /\ raised = "none" /\ Len(equity_curve) = 2
    /\ current_capital = F(995000)
    /\ DOMAIN positions = {"AAPL"}
    /\ positions["AAPL"].quantity = 100
    /\ positions["AAPL"].avg_price = F(50)
    /\ positions["AAPL"].unrealized_pnl = F(500)
    /\ row.close = F(55)
    /\ equity_curve[2].equity = F(1000000)

\* C12: every complete bar appends exactly one sample, stamped with the
\* bar's timestamp, whether or not an order fills on it, and place_order
\* appends none: after k bars the curve has the k samples of the k bars.
C12_OneSamplePerBar ==
    [][ IF IsBarStep /\ row'.fields = AllFields
        THEN /\ Len(equity_curve') = Len(equity_curve) + 1
             /\ equity_curve'[Len(equity_curve')].timestamp = clock'
        ELSE IsBarStep \/ equity_curve' = equity_curve
      ]_vars

\* The instrument of the bar stream: the engine is handed the frame of one
\* symbol (main: process_market_data(market_data["AAPL"])); a row carries no
\* symbol of its own.
BarSymbol == "AAPL"

\* C13: on every complete bar, a pending order for another symbol than the
\* bar's stays in the queue and no trade is appended for it.
C13_OtherSymbolsUntouched ==
    [][ (IsBarStep /\ row'.fields = AllFields) =>
        \A i \in 1..Len(orders) :
           orders[i].symbol # BarSymbol =>
              /\ StillQueued(orders[i])
              /\ ~Fills(orders[i])
              /\ \A k \in NewTradeIndexes : trades'[k].symbol = BarSymbol
      ]_vars

\* C14: along the trade log the timestamps never decrease: a trade appended
\* later does not carry an earlier timestamp than one appended before it.
C14_TradeLogOrderedByTime ==
    \A i \in 1..Len(trades) : \A j \in i..Len(trades) :
       trades[i].timestamp <= trades[j].timestamp

\* C15: two runs of the program that are given the same bars and make the
\* same order submissions have, at every moment, the same trade log and the
\* same equity curve, whatever their wall clocks read.
C15_Deterministic ==
    /\ twin.trades = trades
    /\ twin.equity_curve = equity_curve

\* C16: the order queue never holds an order with quantity <= 0, nor a
\* limit order whose limit price is not positive: place_order refuses them.
C16_NoInvalidOrderQueued ==
    \A i \in 1..Len(orders) :
       /\ orders[i].quantity > 0
       /\ orders[i].order_type = "limit" =>
             (FLe(Zero, orders[i].price) /\ orders[i].price # Zero)

\* C17: no bar is ever processed by an engine constructed with
\* initial_capital <= 0, commission_rate < 0 or slippage < 0.
C17_NoBarOnInvalidConfiguration ==
    clock > 0 =>
       /\ FLe(Zero, initial_capital) /\ initial_capital # Zero
       /\ FLe(Zero, commission_rate)
       /\ FLe(Zero, slippage)

\* C18: a bar that lacks one of close, low and high raises DataError and is
\* skipped: capital, the ledger, the order queue and the trade log are what
\* they were before it.
C18_MalformedBarSkipped ==
    [][ (IsBarStep /\ row'.fields # AllFields) =>
        /\ raised' = "DataError"
        /\ current_capital' = current_capital
        /\ Holdings(positions') = Holdings(positions)
        /\ orders' = orders
        /\ trades' = trades
      ]_vars

\* The fixed fields of the metrics record.
MetricsFields == {"total_return", "sharpe_ratio", "max_drawdown", "win_rate", "total_trades"}

\* C19: a get_performance_metrics call raises nothing; on an empty equity
\* curve it returns an empty record, on any other a record of exactly the
\* five fixed fields whose total_trades is the length of the trade log.
C19_MetricsNeverRaise ==
    metrics.called =>
       /\ raised = "none"
       /\ IF equity_curve = << >>
          THEN DOMAIN metrics.result = {}
          ELSE /\ DOMAIN metrics.result = MetricsFields
               /\ metrics.result.total_trades = Len(trades)

\* Witness of C19: metrics of a curve of three samples and a log of two
\* trades, and (reachable as well) of an empty curve.
C19_Witness ==
    /\ metrics.called
    /\ Len(equity_curve) = 3 /\ Len(trades) = 2
    /\ equity_curve[1].equity = F(1000000)
    /\ equity_curve[2].equity = F(1250000)
    /\ equity_curve[3].equity = F(1000000)
    /\ metrics.result.total_trades = 2
    /\ metrics.result.total_return = Zero
    /\ metrics.result.win_rate = Norm(1, 3)
    /\ metrics.result.max_drawdown = <<Norm(1, 4), Norm(1, 5), Norm(1, 5)>>

\* The period returns of the equity curve.
PeriodReturns == PctChange(EquityColumn(equity_curve))

\* C20: when the period returns have a standard deviation of 0, or are
\* fewer than two, the sharpe_ratio of the metrics is the number 0.
C20_SharpeZeroWhenNoDeviation ==
    ( /\ metrics.called
      /\ equity_curve # << >>
      /\ \/ Variance(PeriodReturns) = Zero
         \/ CountValid(PeriodReturns, Len(PeriodReturns)) < 2 )
    => metrics.result.sharpe_ratio = Zero

\* The drawdown of sample i: how far it lies below the running maximum, as
\* a share of that maximum.
DrawdownAt(equity, i) ==
    FDiv(FSub(CumMax(equity, i), equity[i]), CumMax(equity, i))

\* The largest drawdown of the samples 1..n.
RECURSIVE LargestDrawdown(_, _)
LargestDrawdown(equity, n) ==
    IF n = 1 THEN DrawdownAt(equity, 1)
    ELSE FMax(LargestDrawdown(equity, n - 1), DrawdownAt(equity, n))

\* Whether no sample of the curve lies below the one before it.
NonDecreasing(equity) ==
    \A i \in 2..Len(equity) : FLe(equity[i - 1], equity[i])

\* C21: the max_drawdown of the metrics is one value (every entry of what
\* is returned is that value): the maximum over the samples of
\* (runningMax - equity)/runningMax; it lies in [0, 1] and it is 0 for a
\* curve that never decreases.
C21_MaxDrawdown ==
    (metrics.called /\ equity_curve # << >>) =>
       LET equity == EquityColumn(equity_curve)
           md     == metrics.result.max_drawdown
       IN  \A i \in DOMAIN md :
              /\ md[i] = LargestDrawdown(equity, Len(equity))
              /\ FLe(Zero, md[i]) /\ FLe(md[i], One)
              /\ NonDecreasing(equity) => md[i] = Zero

\* C22: for a curve of N >= 2 samples the win_rate of the metrics is the
\* number of positive period returns divided by N-1, the number of period
\* returns; it is 1 for a strictly increasing curve.
C22_WinRate ==
    (metrics.called /\ Len(equity_curve) >= 2) =>
       LET equity == EquityColumn(equity_curve)
           N      == Len(equity)
           wins   == {i \in 2..N : FPositive(FSub(FDiv(equity[i], equity[i - 1]), One))}
       IN  /\ metrics.result.win_rate = FDiv(F(Cardinality(wins)), F(N - 1))
           /\ (\A i \in 2..N : equity[i - 1] # equity[i] /\ FLe(equity[i - 1], equity[i]))
                 => metrics.result.win_rate = One

\* The trades a step appends for a symbol that are sells.
NewSellsFor(symbol) == {k \in NewTradesFor(symbol) : trades'[k].side = "sell"}

\* C23: a bar is handled as mark-to-market, then order matching, then the
\* equity snapshot, and bars in stream order.  After a bar with a close, a
\* position that was open before the bar and was not sold from on it
\* carries the unrealized PnL of its quantity and average cost before the
\* bar's fills, and a position the bar opened carries none; the sample the
\* bar appends has the bar's timestamp, the next in the stream, and values
\* capital and ledger as they are after all of the bar's fills.
C23_BarCycleOrder ==
    [][ IsBarStep =>
        /\ "close" \in row'.fields =>
             \A s \in DOMAIN positions' :
                /\ (s \in DOMAIN positions /\ NewSellsFor(s) = {}) =>
                      positions'[s].unrealized_pnl =
                         FMul(F(positions[s].quantity),
                              FSub(row'.close, positions[s].avg_price))
                /\ s \notin DOMAIN positions => positions'[s].unrealized_pnl = Zero
        /\ Len(equity_curve') > Len(equity_curve) =>
             LET sample == equity_curve'[Len(equity_curve')]
             IN  /\ sample.timestamp = clock'
                 /\ \A i \in 1..Len(equity_curve) :
                       equity_curve[i].timestamp < sample.timestamp
                 /\ \A flow \in {SumCashFlow(trades', Len(trades) + 1, Len(trades'))} :
                    \A capital \in {FAdd(current_capital, flow)} :
                    \A basis \in {FAdd(CostBasis(positions', "AAPL"),
                                       CostBasis(positions', "MSFT"))} :
                       sample.equity = FAdd(capital, basis)
      ]_vars

\* Witness of C23: 100 bought at 60, then on a bar closing at 55 a limit
\* buy of 100 fills at 54: the position holds 200 at 57 and its unrealized
\* PnL is that of the 100 at 60 held before the fill, 100*(55-60), while
\* the bar's sample counts the fill: 988,600 + 200*57.
C23_Witness ==
    /\ commission_rate = Zero /\ slippage = Zero
    /\ clock = 2 /\ raised = "none" /\ Len(trades) = 2
    /\ row.close = F(55)
    /\ DOMAIN positions = {"AAPL"}
    /\ positions["AAPL"].quantity = 200
    /\ positions["AAPL"].avg_price = F(57)
    /\ positions["AAPL"].unrealized_pnl = F(-500)
    /\ current_capital = F(988600)
    /\ Len(equity_curve) = 2
    /\ equity_curve[2].equity = F(1000000)

\* C24: place_order appends the order at the tail of the queue, whatever
\* the queue already holds; the trades a bar appends are in the order in
\* which their orders stand in the queue, and the orders the bar leaves
\* pending are orders of the queue in the order they had in it.
C24_SubmissionOrder ==
    [][ /\ placed' = placed + 1 =>
             /\ Len(orders') = Len(orders) + 1
             /\ SubSeq(orders', 1, Len(orders)) = orders
             /\ orders'[Len(orders')].timestamp = placed'
        /\ IsBarStep =>
             /\ \A k \in NewTradeIndexes : \A m \in NewTradeIndexes :
                   k < m => OrderAt(trades'[k].timestamp) < OrderAt(trades'[m].timestamp)
             /\ \A j \in 1..Len(orders') :
                   \E i \in 1..Len(orders) : orders[i] = orders'[j]
             /\ \A j \in 1..Len(orders') : \A l \in 1..Len(orders') :
                   j < l => OrderAt(orders'[j].timestamp) < OrderAt(orders'[l].timestamp)
      ]_vars

\* Witness of C24: a limit sell and then two market buys that differ in
\* nothing but their time of creation were placed; a bar that does not
\* trigger the sell has filled both buys, the older one first, and left the
\* sell pending.
C24_Witness ==
    /\ clock = 1 /\ placed = 3 /\ raised = "none"
    /\ Len(trades) = 2
    /\ trades[1].timestamp = 2 /\ trades[2].timestamp = 3
    /\ trades[1].quantity = 100 /\ trades[2].quantity = 100
    /\ trades[1].side = "buy" /\ trades[2].side = "buy"
    /\ orders = <<LimitOrder("AAPL", "sell", 100, F(54), 1)>>

\* Capital plus the cost basis of every open position.
CostBasisEquity(capital, pos) ==
    FAdd(capital, FAdd(CostBasis(pos, "AAPL"), CostBasis(pos, "MSFT")))

\* C25: on a bar whose one pending order fills, capital plus the cost basis
\* of the open positions changes by exactly minus the commission when the
\* fill is a buy, and by exactly (p - average_cost)*q minus the commission
\* when it is a sell of q at p out of a position of at least q; on a bar
\* with no pending order, which only marks the positions to market, it does
\* not change.
C25_CostBasisEquityConserved ==
    [][ IsBarStep =>
        \A before \in {CostBasisEquity(current_capital, positions)} :
        \A after \in {CostBasisEquity(current_capital', positions')} :
           /\ (orders = << >> /\ raised' = "none") => after = before
           /\ (Len(orders) = 1 /\ Len(trades') = Len(trades) + 1) =>
                LET t == trades'[Len(trades')]
                    s == t.symbol
                IN  /\ t.side = "buy" => after = FSub(before, t.commission)
                    /\ ( /\ t.side = "sell"
                         /\ s \in DOMAIN positions
                         /\ positions[s].quantity >= t.quantity ) =>
                          \A gain \in {FMul(FSub(t.price, positions[s].avg_price),
                                            F(t.quantity))} :
                             after = FAdd(before, FSub(gain, t.commission))
      ]_vars

\* C26: on a bar whose one pending order is a sell of a symbol that has no
\* position, and fills, capital grows by quantity*price minus commission
\* and a trade is appended; the ledger holds what it held, with no position
\* for the symbol, and the bar's equity sample is capital plus cost basis
\* before the bar plus the whole proceeds.  A market sell without a
\* position always fills on a bar with a close.
C26_SellWithoutPosition ==
    [][ ( /\ IsBarStep
          /\ Len(orders) = 1
          /\ orders[1].side = "sell"
          /\ orders[1].symbol \notin DOMAIN positions ) =>
        /\ (orders[1].order_type = "market" /\ "close" \in row'.fields
              /\ raised' = "none")
             => Len(trades') = Len(trades) + 1
        /\ Len(trades') = Len(trades) + 1 =>
             LET t == trades'[Len(trades')] IN
             \A proceeds \in {FSub(FMul(F(t.quantity), t.price), t.commission)} :
                /\ t.side = "sell" /\ t.symbol = orders[1].symbol
                /\ t.quantity = orders[1].quantity
                /\ current_capital' = FAdd(current_capital, proceeds)
                /\ t.symbol \notin DOMAIN positions'
                /\ Holdings(positions') = Holdings(positions)
                /\ Len(equity_curve') = Len(equity_curve) + 1 =>
                      equity_curve'[Len(equity_curve')].equity =
                         FAdd(CostBasisEquity(current_capital, positions), proceeds)
      ]_vars

\* Witness of C26: with nothing held, 100 were sold at the close of 50:
\* capital and equity are 1,005,000, one trade is logged and the ledger is
\* empty.
C26_Witness ==
    /\ commission_rate = Zero /\ slippage = Zero
    /\ clock = 1 /\ raised = "none"
    /\ Len(trades) = 1
    /\ trades[1].side = "sell" /\ trades[1].quantity = 100 /\ trades[1].price = F(50)
    /\ current_capital = F(1005000)
    /\ DOMAIN positions = {}
    /\ orders = << >>
    /\ equity_curve = <<[timestamp |-> 1, equity |-> F(1005000)]>>

\* C27: on a complete bar whose one pending order is a buy, at the market
\* or a triggered limit order, capital is debited quantity*price plus
\* commission whatever capital there is, and unless the ledger update
\* raises (which depends on the quantity held alone) the order fills in
\* full and leaves the queue: no buy is refused or reduced for lack of
\* funds.
C27_BuyNeverRefusedForFunds ==
    [][ ( /\ IsBarStep /\ row'.fields = AllFields
          /\ Len(orders) = 1
          /\ orders[1].side = "buy"
          /\ (orders[1].order_type = "limit" => Triggers(row', orders[1])) ) =>
        \A price \in {IF orders[1].order_type = "market"
                      THEN FMul(row'.close, FAdd(One, slippage))
                      ELSE orders[1].price} :
        \A commission \in {FMul(FMul(F(orders[1].quantity), price), commission_rate)} :
        \A cost \in {FAdd(FMul(F(orders[1].quantity), price), commission)} :
           /\ current_capital' = FSub(current_capital, cost)
           /\ raised' \in {"none", "ZeroDivisionError"}
           /\ raised' = "ZeroDivisionError" =>
                 Held(positions, orders[1].symbol) + orders[1].quantity = 0
           /\ raised' = "none" =>
                 /\ Len(trades') = Len(trades) + 1
                 /\ trades'[Len(trades')].quantity = orders[1].quantity
                 /\ trades'[Len(trades')].price = price
                 /\ orders' = << >>
      ]_vars

\* Witness of C27: an engine constructed with a capital of 10,000 has
\* bought 100 three times at 50 and holds 300; its capital is -5,000.
C27_Witness ==
    /\ commission_rate = Zero /\ slippage = Zero
    /\ initial_capital = F(SmallCapital)
    /\ raised = "none"
    /\ Len(trades) = 3
    /\ \A k \in 1..3 : /\ trades[k].side = "buy" /\ trades[k].quantity = 100
                       /\ trades[k].price = F(50)
    /\ current_capital = F(-5000)
    /\ positions["AAPL"].quantity = 300

\* The pending orders of a symbol, in queue order.
OrderSeqFor(symbol) == SelectSeq(orders, LAMBDA o : o.symbol = symbol)

\* A step that fills every pending order of the symbol.
AllFill(symbol) ==
    /\ IsBarStep
    /\ Cardinality(NewTradesFor(symbol)) = Len(OrderSeqFor(symbol))

\* The last trade a step appends for the symbol.
LastFill(symbol) ==
    trades'[CHOOSE k \in NewTradesFor(symbol) :
               \A j \in NewTradesFor(symbol) : j <= k]

\* Whether the symbol's position after a step is the one that trade t alone
\* would open.
FreshFrom(symbol, t) ==
    /\ symbol \in DOMAIN positions'
    /\ positions'[symbol].quantity = t.quantity
    /\ positions'[symbol].avg_price = t.price
    /\ positions'[symbol].realized_pnl = Zero
    /\ positions'[symbol].unrealized_pnl = Zero

\* C28: a sell fill of all that is held removes the position, and nothing
\* of it is left in the ledger; a buy fill of a symbol without a position,
\* and a buy fill that follows, in the same bar, the sell that closed the
\* symbol's position, create a position with the buy's quantity, average
\* cost equal to the buy's fill price, realized_pnl 0 and unrealized_pnl 0,
\* whatever the closed position had accumulated.
C28_FreshPositionAfterClose ==
    [][ \A s \in {orders[i].symbol : i \in 1..Len(orders)} :
        \A os \in {OrderSeqFor(s)} :
          /\ ( /\ SingleFill(s) /\ TheFill(s).side = "sell"
               /\ s \in DOMAIN positions
               /\ positions[s].quantity = TheFill(s).quantity ) =>
                s \notin DOMAIN positions'
          /\ ( /\ SingleFill(s) /\ TheFill(s).side = "buy"
               /\ s \notin DOMAIN positions ) =>
                FreshFrom(s, TheFill(s))
          /\ ( /\ AllFill(s) /\ Len(os) = 2
               /\ s \in DOMAIN positions
               /\ os[1].side = "sell" /\ os[1].quantity = positions[s].quantity
               /\ os[2].side = "buy" ) =>
                FreshFrom(s, LastFill(s))
          /\ ( /\ AllFill(s) /\ Len(os) = 3
               /\ s \notin DOMAIN positions
               /\ os[1].side = "buy"
               /\ os[2].side = "sell" /\ os[2].quantity = os[1].quantity
               /\ os[3].side = "buy" ) =>
                FreshFrom(s, LastFill(s))
      ]_vars

\* Witness of C28: with slippage 2%, one bar closing at 50 has bought 100
\* at 51, sold them at 49 (a realized PnL of -200 on the position removed)
\* and bought 100 at 51 again; the position held has average cost 51 and
\* realized_pnl 0.
C28_Witness ==
    /\ slippage = Norm(1, 50)
    /\ clock = 1 /\ raised = "none"
    /\ Len(trades) = 3
    /\ trades[1].side = "buy" /\ trades[1].quantity = 100 /\ trades[1].price = F(51)
    /\ trades[2].side = "sell" /\ trades[2].quantity = 100 /\ trades[2].price = F(49)
    /\ trades[3].side = "buy" /\ trades[3].quantity = 100 /\ trades[3].price = F(51)
    /\ "AAPL" \in DOMAIN positions
    /\ positions["AAPL"].quantity = 100
    /\ positions["AAPL"].avg_price = F(51)
    /\ positions["AAPL"].realized_pnl = Zero
    /\ positions["AAPL"].unrealized_pnl = Zero

=============================================================================
